---- MODULE Spec2Model ----
(***************************************************************************)
(* QueueRator (src/app.py): a Flask service keeping waiting queues in       *)
(* queues.json and serve/delete statistics in stats.json.                  *)
(*                                                                         *)
(* Every request handler is a thread that reads a whole document, changes  *)
(* its private copy and writes the whole document back.  One step of the   *)
(* model is one access to shared state (a file read, the opening of a file *)
(* for writing, the write itself, a test or change of the QR cache); the   *)
(* handler's local computation is done in the step that precedes it, and   *)
(* the response is returned in the handler's last step.                    *)
(*                                                                         *)
(* Path.write_text opens the file with mode "w", which empties it, and     *)
(* writes the text when the file is closed: between the two a reader finds *)
(* an empty file and json.loads raises.  save_data does this under LOCK,   *)
(* save_stats without any lock: two threads can have stats.json open at    *)
(* once, each writing its text from offset 0.  A text written over a       *)
(* longer one leaves the longer one's tail behind it, which json.loads     *)
(* rejects ("Extra data"); the model therefore keeps the length of the     *)
(* text in stats.json (json.dumps with its default separators, ids of 8    *)
(* characters, generated names of 11, other names of 1).                   *)
(*                                                                         *)
(* Left out: the "created" time of a queue and the "time" of a history     *)
(* entry (wall-clock values no handler reads back), the rendered pages and *)
(* the two read-only admin views (/api/admin/stats, /api/admin/queues).    *)
(***************************************************************************)
EXTENDS Integers, Sequences, FiniteSets, TLC

\* ---------------------------------------------------------------- bounds
NumThreads == 2
\* requests received in a run: of Spec and LongRunSpec, of DeepSpec, of SeqSpec
MaxRequests == 2
MaxDeepRequests == 3
MaxSeqRequests == 5

\* ------------------------------------------------------------- constants
HistoryLimit == 50

Threads == 1..NumThreads
NoThread == 0

\* the values uuid.uuid4().hex[:8] is drawn from
QueueIds == {"q1", "q2"}
NoQueue == "none"
\* names a client can send; NoName is a missing or empty "name"
Names == {"a", "b"}
NoName == ""
NameInputs == Names \cup {NoName}
\* the values f"User_{uuid.uuid4().hex[:6]}" is drawn from
GenNames == {"User_x"}
Null == "null"
AllNames == Names \cup GenNames
\* no history entry answered
NoEntry == [user |-> NoName, queue |-> NoQueue]

EmptyStore == [k \in {} |-> <<>>]
DefaultStats == [served_today |-> 0, history |-> <<>>]

VARIABLES
  dataFile,      \* queues.json: the document last written completely
  LOCK,          \* holder of LOCK (NoThread when free); while it is held
                 \* queues.json is open for writing and empty
  statsFile,     \* stats.json: the valid document last written completely
  statsState,    \* "ok", "truncated" (opened for writing, nothing written
                 \* yet) or "corrupt" (a shorter text written over a longer)
  statsLen,      \* number of characters in stats.json
  statsWriters,  \* threads between the open and the close of stats.json
  qrCache,       \* ids with a file static/qr_cache/<id>.png
  pc, op, queue_id, name,   \* per thread: position, handler, arguments
  data, stats,              \* per thread: the documents it loaded
  removed, position, result,\* per thread: what it answers
  cleared_count, last_entry,\* per thread: what the history handlers answer
  started,       \* number of requests received
  servedCount,   \* number of queue_next calls that answered a name
  deletedOk,     \* ids whose delete_queue answered ok (and not created since)
  afterDelete,   \* per thread: its request began when its id was in deletedOk
                 \* (and the id was not created again since)
  appended,      \* per id: names appended by join/add since the queue was
                 \* last created, cleared or deleted, in order of completion
  servedLog,     \* per id: names answered by queue_next over the same span
  clearRun,      \* per id: queue_clear calls completed since another request
                 \* last wrote the queue
  unserved       \* per id and name: entries of that name appended to the
                 \* queue, less the times queue_next answered that name

files == <<dataFile, LOCK, statsFile, statsState, statsLen, statsWriters, qrCache>>
outs == <<cleared_count, last_entry>>
locals == <<pc, op, queue_id, name, data, stats, removed, position, result, outs>>
ghosts == <<started, servedCount, deletedOk, afterDelete, appended, servedLog, clearRun, unserved>>
vars == <<files, locals, ghosts>>

\* ------------------------------------------------------------ documents
Last(s) == s[Len(s)]
Front(s) == SubSeq(s, 1, Len(s) - 1)

AddQueue(d, q) == [k \in DOMAIN d \cup {q} |-> IF k = q THEN <<>> ELSE d[k]]
DelQueue(d, q) == [k \in DOMAIN d \ {q} |-> d[k]]
SetUsers(d, q, users) == [d EXCEPT ![q] = users]

\* a pop() without the index takes the newest entry
pop_last(users) == [removed |-> users[Len(users)], users |-> SubSeq(users, 1, Len(users) - 1)]

\* users.pop(0)
pop0(users) == [removed |-> Head(users), users |-> Tail(users)]

\* users.append(name)
append(users, n) == Append(users, n)

\* the position taken before the append (a 0-based rank)
position_before_append(d, q) == Len(d[q]) - 1

\* len(data[queue_id]["users"]) after the append
position_of(d, q) == Len(d[q])

\* the slice left out
KeepAll(h) == h

\* history[-50:]
KeepLast(h) ==
  IF Len(h) <= HistoryLimit THEN h ELSE SubSeq(h, Len(h) - HistoryLimit + 1, Len(h))

ServedEntry(q, n) == [user |-> n, queue |-> q]
DeletedEntry(q) == [user |-> "-", queue |-> q, event |-> "Queue deleted"]

\* the entry logged without the counter being incremented
RecordServedNoCount(s, q, n) ==
  [served_today |-> s.served_today,
   history |-> KeepLast(Append(s.history, ServedEntry(q, n)))]

\* queue_next's stats update
RecordServed(s, q, n) ==
  [served_today |-> s.served_today + 1,
   history |-> KeepLast(Append(s.history, ServedEntry(q, n)))]

\* delete_queue's stats update
RecordDeletion(s, q) ==
  [served_today |-> s.served_today,
   history |-> KeepLast(Append(s.history, DeletedEntry(q)))]

\* len(json.dumps(stats))
Digits(n) == IF n < 10 THEN 1 ELSE IF n < 100 THEN 2 ELSE 3
NameLen(n) == IF n \in GenNames THEN 11 ELSE 1
EntryLen(e) == IF "event" \in DOMAIN e THEN 79 + NameLen(e.user) ELSE 53 + NameLen(e.user)
RECURSIVE HistoryLen(_)
HistoryLen(h) == IF h = <<>> THEN 0 ELSE EntryLen(Head(h)) + HistoryLen(Tail(h))
TextLen(s) ==
  33 + Digits(s.served_today) + HistoryLen(s.history)
     + (IF s.history = <<>> THEN 0 ELSE 2 * (Len(s.history) - 1))

\* json.loads(DATA_FILE.read_text()) succeeds
DataReadable == LOCK = NoThread
\* json.loads(STATS_FILE.read_text()) succeeds
StatsReadable == statsState = "ok"

\* ------------------------------------------------------------- requests
Requests ==
  {[op |-> o, queue_id |-> NoQueue, name |-> NoName] :
      o \in {"create_queue", "clear_last_history", "clear_all_history"}}
  \cup
  {[op |-> o, queue_id |-> q, name |-> NoName] :
      o \in {"queue_qr", "queue_data", "queue_next", "queue_clear", "delete_queue"},
      q \in QueueIds}
  \cup
  {[op |-> o, queue_id |-> q, name |-> n] :
      o \in {"queue_join", "queue_add"}, q \in QueueIds, n \in NameInputs}

FirstStep(o) ==
  IF o \in {"clear_last_history", "clear_all_history"} THEN "load_stats" ELSE "load_data"

InFlight(t) == pc[t] \notin {"idle", "done"}

Goto(t, label) == pc' = [pc EXCEPT ![t] = label]

\* the handler returns: its private copies are gone
Return(t, res) ==
  /\ pc' = [pc EXCEPT ![t] = "done"]
  /\ result' = [result EXCEPT ![t] = res]
  /\ data' = [data EXCEPT ![t] = EmptyStore]
  /\ stats' = [stats EXCEPT ![t] = DefaultStats]

\* the request is given to the first free worker thread
Receive(t, req) ==
  /\ ~InFlight(t)
  /\ \A u \in Threads : u < t => InFlight(u)
  /\ started' = started + 1
  /\ pc' = [pc EXCEPT ![t] = FirstStep(req.op)]
  /\ op' = [op EXCEPT ![t] = req.op]
  /\ queue_id' = [queue_id EXCEPT ![t] = req.queue_id]
  /\ name' = [name EXCEPT ![t] = req.name]
  /\ removed' = [removed EXCEPT ![t] = Null]
  /\ position' = [position EXCEPT ![t] = 0]
  /\ cleared_count' = [cleared_count EXCEPT ![t] = 0]
  /\ last_entry' = [last_entry EXCEPT ![t] = NoEntry]
  /\ result' = [result EXCEPT ![t] = "none"]
  /\ afterDelete' = [afterDelete EXCEPT ![t] = req.queue_id \in deletedOk]
  /\ UNCHANGED <<files, data, stats, servedCount, deletedOk, appended, servedLog, clearRun, unserved>>

\* a request arrives while others may be running (threaded server)
Start(t) ==
  /\ started < MaxRequests
  /\ \E req \in Requests : Receive(t, req)

\* as Start, in the longer runs of DeepSpec
DeepStart(t) ==
  /\ started < MaxDeepRequests
  /\ \E req \in Requests : Receive(t, req)

\* a request arrives when no other is running
SeqStart(t) ==
  /\ started < MaxSeqRequests
  /\ \A u \in Threads : ~InFlight(u)
  /\ \E req \in Requests : Receive(t, req)

\* ---------------------------------------------------- save_data / save_stats
\* with LOCK: DATA_FILE.write_text(...) is entered: the file is opened
save_data_enter(t) ==
  /\ pc[t] = "save_data"
  /\ LOCK = NoThread
  /\ LOCK' = t
  /\ Goto(t, "write_data")
  /\ UNCHANGED <<dataFile, statsFile, statsState, statsLen, statsWriters, qrCache>>
  /\ UNCHANGED <<op, queue_id, name, data, stats, removed, position, outs, result>>
  /\ UNCHANGED ghosts

\* the text is written, the file closed and LOCK released
WriteData(t) ==
  /\ pc[t] = "write_data"
  /\ LOCK = t
  /\ dataFile' = data[t]
  /\ LOCK' = NoThread

\* STATS_FILE.write_text(...) is entered: the file is opened
save_stats_open(t) ==
  /\ pc[t] = "save_stats"
  /\ statsState' = "truncated"
  /\ statsLen' = 0
  /\ statsWriters' = statsWriters \cup {t}
  /\ Goto(t, "write_stats")
  /\ UNCHANGED <<dataFile, LOCK, statsFile, qrCache>>
  /\ UNCHANGED <<op, queue_id, name, data, stats, removed, position, outs, result>>
  /\ UNCHANGED ghosts

\* the text is written at offset 0 and the file closed.  The file holds this
\* text if it is at least as long as what was there (nothing, unless another
\* writer wrote since the file was last emptied), and an invalid text of the
\* old length otherwise.
WriteStats(t) ==
  /\ pc[t] = "write_stats"
  /\ statsWriters' = statsWriters \ {t}
  /\ IF statsLen <= TextLen(stats[t])
       THEN /\ statsFile' = stats[t]
            /\ statsState' = "ok"
            /\ statsLen' = TextLen(stats[t])
       ELSE /\ statsState' = "corrupt"
            /\ UNCHANGED <<statsFile, statsLen>>

\* ----------------------------------------------------------- create_queue
create_queue_load(t) ==
  /\ op[t] = "create_queue" /\ pc[t] = "load_data"
  /\ IF DataReadable
       THEN \E id \in QueueIds :
              /\ queue_id' = [queue_id EXCEPT ![t] = id]
              /\ data' = [data EXCEPT ![t] = AddQueue(dataFile, id)]
              /\ Goto(t, "save_data")
              /\ UNCHANGED <<stats, result>>
       ELSE Return(t, "error500") /\ UNCHANGED queue_id
  /\ UNCHANGED <<files, op, name, removed, position, outs, ghosts>>

create_queue_write(t) ==
  /\ op[t] = "create_queue"
  /\ WriteData(t)
  /\ Return(t, "ok")
  /\ deletedOk' = deletedOk \ {queue_id[t]}
  /\ afterDelete' = [u \in Threads |-> afterDelete[u] /\ queue_id[u] # queue_id[t]]
  /\ appended' = [appended EXCEPT ![queue_id[t]] = <<>>]
  /\ servedLog' = [servedLog EXCEPT ![queue_id[t]] = <<>>]
  /\ UNCHANGED <<statsFile, statsState, statsLen, statsWriters, qrCache>>
  /\ UNCHANGED <<op, queue_id, name, removed, position, outs>>
  /\ clearRun' = [clearRun EXCEPT ![queue_id[t]] = 0]
  /\ UNCHANGED <<started, servedCount, unserved>>

\* --------------------------------------------------------------- queue_qr
queue_qr_load(t) ==
  /\ op[t] = "queue_qr" /\ pc[t] = "load_data"
  /\ IF ~DataReadable THEN Return(t, "error500")
     ELSE IF queue_id[t] \notin DOMAIN dataFile THEN Return(t, "not_found")
     ELSE Goto(t, "qr_exists") /\ UNCHANGED <<data, stats, result>>
  /\ UNCHANGED <<files, op, queue_id, name, removed, position, outs, ghosts>>

queue_qr_exists(t) ==
  /\ op[t] = "queue_qr" /\ pc[t] = "qr_exists"
  /\ IF queue_id[t] \in qrCache THEN Goto(t, "send_file") ELSE Goto(t, "qr_save")
  /\ UNCHANGED <<files, op, queue_id, name, data, stats, removed, position, outs, result, ghosts>>

queue_qr_save(t) ==
  /\ op[t] = "queue_qr" /\ pc[t] = "qr_save"
  /\ qrCache' = qrCache \cup {queue_id[t]}
  /\ Goto(t, "send_file")
  /\ UNCHANGED <<dataFile, LOCK, statsFile, statsState, statsLen, statsWriters>>
  /\ UNCHANGED <<op, queue_id, name, data, stats, removed, position, outs, result, ghosts>>

queue_qr_send(t) ==
  /\ op[t] = "queue_qr" /\ pc[t] = "send_file"
  /\ IF queue_id[t] \in qrCache THEN Return(t, "ok") ELSE Return(t, "error500")
  /\ UNCHANGED <<files, op, queue_id, name, removed, position, outs, ghosts>>

\* ------------------------------------------------------------- queue_data
queue_data_load(t) ==
  /\ op[t] = "queue_data" /\ pc[t] = "load_data"
  /\ IF ~DataReadable THEN Return(t, "error500")
     ELSE IF queue_id[t] \notin DOMAIN dataFile THEN Return(t, "not_found")
     ELSE Return(t, "ok")
  /\ UNCHANGED <<files, op, queue_id, name, removed, position, outs, ghosts>>

\* ------------------------------------------------------------- queue_join
\* variant: joining an id that is not stored creates the queue
queue_join_creates(t) ==
  /\ op[t] = "queue_join" /\ pc[t] = "load_data"
  /\ \E n \in (IF name[t] = NoName THEN GenNames ELSE {name[t]}) :
       /\ name' = [name EXCEPT ![t] = n]
       /\ IF ~DataReadable THEN Return(t, "error500")
          ELSE /\ data' = [data EXCEPT ![t] =
                             IF queue_id[t] \in DOMAIN dataFile
                               THEN SetUsers(dataFile, queue_id[t],
                                             append(dataFile[queue_id[t]], n))
                               ELSE SetUsers(AddQueue(dataFile, queue_id[t]),
                                             queue_id[t], <<n>>)]
               /\ Goto(t, "save_data")
               /\ UNCHANGED <<stats, result>>
  /\ UNCHANGED <<files, op, queue_id, removed, position, outs, ghosts>>

queue_join_load(t) ==
  /\ op[t] = "queue_join" /\ pc[t] = "load_data"
  /\ \E n \in (IF name[t] = NoName THEN GenNames ELSE {name[t]}) :
       /\ name' = [name EXCEPT ![t] = n]
       /\ IF ~DataReadable THEN Return(t, "error500")
          ELSE IF queue_id[t] \notin DOMAIN dataFile THEN Return(t, "not_found")
          ELSE /\ data' = [data EXCEPT ![t] =
                             SetUsers(dataFile, queue_id[t], append(dataFile[queue_id[t]], n))]
               /\ Goto(t, "save_data")
               /\ UNCHANGED <<stats, result>>
  /\ UNCHANGED <<files, op, queue_id, removed, position, outs, ghosts>>

queue_join_write(t) ==
  /\ op[t] = "queue_join"
  /\ WriteData(t)
  /\ position' = [position EXCEPT ![t] = position_of(data[t], queue_id[t])]
  /\ Return(t, "ok")
  /\ appended' = [appended EXCEPT ![queue_id[t]] = Append(@, name[t])]
  /\ UNCHANGED <<statsFile, statsState, statsLen, statsWriters, qrCache>>
  /\ clearRun' = [clearRun EXCEPT ![queue_id[t]] = 0]
  /\ unserved' = [unserved EXCEPT ![queue_id[t]][name[t]] = @ + 1]
  /\ UNCHANGED <<op, queue_id, name, removed, outs>>
  /\ UNCHANGED <<started, servedCount, deletedOk, afterDelete, servedLog>>

\* -------------------------------------------------------------- queue_add
\* variant: the id is looked up before the name is tested
queue_add_lookup_first(t) ==
  /\ op[t] = "queue_add" /\ pc[t] = "load_data"
  /\ IF ~DataReadable THEN Return(t, "error500")
     ELSE IF queue_id[t] \notin DOMAIN dataFile THEN Return(t, "not_found")
     ELSE IF name[t] = NoName THEN Return(t, "missing_name")
     ELSE /\ data' = [data EXCEPT ![t] = SetUsers(dataFile, queue_id[t], append(dataFile[queue_id[t]], name[t]))]
          /\ Goto(t, "save_data")
          /\ UNCHANGED <<stats, result>>
  /\ UNCHANGED <<files, op, queue_id, name, removed, position, outs, ghosts>>

queue_add_load(t) ==
  /\ op[t] = "queue_add" /\ pc[t] = "load_data"
  /\ IF name[t] = NoName THEN Return(t, "missing_name")
     ELSE IF ~DataReadable THEN Return(t, "error500")
     ELSE IF queue_id[t] \notin DOMAIN dataFile THEN Return(t, "not_found")
     ELSE /\ data' = [data EXCEPT ![t] =
                        SetUsers(dataFile, queue_id[t], append(dataFile[queue_id[t]], name[t]))]
          /\ Goto(t, "save_data")
          /\ UNCHANGED <<stats, result>>
  /\ UNCHANGED <<files, op, queue_id, name, removed, position, outs, ghosts>>

queue_add_write(t) ==
  /\ op[t] = "queue_add"
  /\ WriteData(t)
  /\ Return(t, "ok")
  /\ appended' = [appended EXCEPT ![queue_id[t]] = Append(@, name[t])]
  /\ UNCHANGED <<statsFile, statsState, statsLen, statsWriters, qrCache>>
  /\ clearRun' = [clearRun EXCEPT ![queue_id[t]] = 0]
  /\ unserved' = [unserved EXCEPT ![queue_id[t]][name[t]] = @ + 1]
  /\ UNCHANGED <<op, queue_id, name, removed, position, outs>>
  /\ UNCHANGED <<started, servedCount, deletedOk, afterDelete, servedLog>>

\* ------------------------------------------------------------- queue_next
queue_next_load_data(t) ==
  /\ op[t] = "queue_next" /\ pc[t] = "load_data"
  /\ IF ~DataReadable THEN Return(t, "error500")
     ELSE /\ data' = [data EXCEPT ![t] = dataFile]
          /\ Goto(t, "load_stats")
          /\ UNCHANGED <<stats, result>>
  /\ UNCHANGED <<files, op, queue_id, name, removed, position, outs, ghosts>>

\* the test of line 130 left out of the logging: an empty queue is logged too
queue_next_logs_empty(t) ==
  /\ op[t] = "queue_next" /\ pc[t] = "load_stats"
  /\ IF ~StatsReadable THEN Return(t, "error500") /\ UNCHANGED removed
     ELSE IF queue_id[t] \notin DOMAIN data[t] THEN Return(t, "not_found") /\ UNCHANGED removed
     ELSE IF data[t][queue_id[t]] # <<>>
       THEN LET p == pop0(data[t][queue_id[t]]) IN
            /\ removed' = [removed EXCEPT ![t] = p.removed]
            /\ data' = [data EXCEPT ![t] = SetUsers(data[t], queue_id[t], p.users)]
            /\ stats' = [stats EXCEPT ![t] = statsFile]
            /\ Goto(t, "save_data")
            /\ UNCHANGED result
       ELSE /\ stats' = [stats EXCEPT ![t] = RecordServed(statsFile, queue_id[t], Null)]
            /\ Goto(t, "save_stats")
            /\ UNCHANGED <<data, removed, result>>
  /\ UNCHANGED <<files, op, queue_id, name, position, outs, ghosts>>

queue_next_load_stats(t) ==
  /\ op[t] = "queue_next" /\ pc[t] = "load_stats"
  /\ IF ~StatsReadable THEN Return(t, "error500") /\ UNCHANGED removed
     ELSE IF queue_id[t] \notin DOMAIN data[t] THEN Return(t, "not_found") /\ UNCHANGED removed
     ELSE IF data[t][queue_id[t]] # <<>>
       THEN LET p == pop0(data[t][queue_id[t]]) IN
            /\ removed' = [removed EXCEPT ![t] = p.removed]
            /\ data' = [data EXCEPT ![t] = SetUsers(data[t], queue_id[t], p.users)]
            /\ stats' = [stats EXCEPT ![t] = statsFile]
            /\ Goto(t, "save_data")
            /\ UNCHANGED result
       ELSE Return(t, "ok") /\ UNCHANGED removed
  /\ UNCHANGED <<files, op, queue_id, name, position, outs, ghosts>>

queue_next_write_data(t) ==
  /\ op[t] = "queue_next"
  /\ WriteData(t)
  /\ stats' = [stats EXCEPT ![t] = RecordServed(stats[t], queue_id[t], removed[t])]
  /\ Goto(t, "save_stats")
  /\ clearRun' = [clearRun EXCEPT ![queue_id[t]] = 0]
  /\ UNCHANGED <<statsFile, statsState, statsLen, statsWriters, qrCache>>
  /\ UNCHANGED <<op, queue_id, name, data, removed, position, outs, result>>
  /\ UNCHANGED <<started, servedCount, deletedOk, afterDelete, appended, servedLog, unserved>>

queue_next_write_stats(t) ==
  /\ op[t] = "queue_next"
  /\ WriteStats(t)
  /\ Return(t, "ok")
  /\ servedCount' = servedCount + 1
  /\ servedLog' = [servedLog EXCEPT ![queue_id[t]] = Append(@, removed[t])]
  /\ UNCHANGED <<dataFile, LOCK, qrCache>>
  /\ UNCHANGED <<op, queue_id, name, removed, position, outs>>
  /\ unserved' = [unserved EXCEPT ![queue_id[t]][removed[t]] = @ - 1]
  /\ UNCHANGED <<started, deletedOk, afterDelete, appended, clearRun>>

\* ------------------------------------------------------------ queue_clear
\* variant: clearing a queue that is already empty is refused
queue_clear_once(t) ==
  /\ op[t] = "queue_clear" /\ pc[t] = "load_data"
  /\ IF ~DataReadable THEN Return(t, "error500")
     ELSE IF queue_id[t] \notin DOMAIN dataFile THEN Return(t, "not_found")
     ELSE IF dataFile[queue_id[t]] = <<>> THEN Return(t, "not_found")
     ELSE /\ data' = [data EXCEPT ![t] = SetUsers(dataFile, queue_id[t], <<>>)]
          /\ Goto(t, "save_data")
          /\ UNCHANGED <<stats, result>>
  /\ UNCHANGED <<files, op, queue_id, name, removed, position, outs, ghosts>>

queue_clear_load(t) ==
  /\ op[t] = "queue_clear" /\ pc[t] = "load_data"
  /\ IF ~DataReadable THEN Return(t, "error500")
     ELSE IF queue_id[t] \notin DOMAIN dataFile THEN Return(t, "not_found")
     ELSE /\ data' = [data EXCEPT ![t] = SetUsers(dataFile, queue_id[t], <<>>)]
          /\ Goto(t, "save_data")
          /\ UNCHANGED <<stats, result>>
  /\ UNCHANGED <<files, op, queue_id, name, removed, position, outs, ghosts>>

queue_clear_write(t) ==
  /\ op[t] = "queue_clear"
  /\ WriteData(t)
  /\ Return(t, "ok")
  /\ appended' = [appended EXCEPT ![queue_id[t]] = <<>>]
  /\ servedLog' = [servedLog EXCEPT ![queue_id[t]] = <<>>]
  /\ UNCHANGED <<statsFile, statsState, statsLen, statsWriters, qrCache>>
  /\ UNCHANGED <<op, queue_id, name, removed, position, outs>>
  /\ clearRun' = [clearRun EXCEPT ![queue_id[t]] = @ + 1]
  /\ UNCHANGED <<started, servedCount, deletedOk, afterDelete, unserved>>

\* ----------------------------------------------------------- delete_queue
delete_queue_load_data(t) ==
  /\ op[t] = "delete_queue" /\ pc[t] = "load_data"
  /\ IF ~DataReadable THEN Return(t, "error500")
     ELSE /\ data' = [data EXCEPT ![t] = dataFile]
          /\ Goto(t, "load_stats")
          /\ UNCHANGED <<stats, result>>
  /\ UNCHANGED <<files, op, queue_id, name, removed, position, outs, ghosts>>

delete_queue_load_stats(t) ==
  /\ op[t] = "delete_queue" /\ pc[t] = "load_stats"
  /\ IF ~StatsReadable THEN Return(t, "error500")
     ELSE IF queue_id[t] \notin DOMAIN data[t] THEN Return(t, "not_found")
     ELSE /\ stats' = [stats EXCEPT ![t] = statsFile]
          /\ Goto(t, "qr_exists")
          /\ UNCHANGED <<data, result>>
  /\ UNCHANGED <<files, op, queue_id, name, removed, position, outs, ghosts>>

delete_queue_qr_exists(t) ==
  /\ op[t] = "delete_queue" /\ pc[t] = "qr_exists"
  /\ IF queue_id[t] \in qrCache
       THEN Goto(t, "unlink") /\ UNCHANGED stats
       ELSE /\ stats' = [stats EXCEPT ![t] = RecordDeletion(stats[t], queue_id[t])]
            /\ Goto(t, "save_stats")
  /\ UNCHANGED <<files, op, queue_id, name, data, removed, position, outs, result, ghosts>>

delete_queue_unlink(t) ==
  /\ op[t] = "delete_queue" /\ pc[t] = "unlink"
  /\ IF queue_id[t] \in qrCache
       THEN /\ qrCache' = qrCache \ {queue_id[t]}
            /\ stats' = [stats EXCEPT ![t] = RecordDeletion(stats[t], queue_id[t])]
            /\ Goto(t, "save_stats")
            /\ UNCHANGED <<data, result>>
       ELSE Return(t, "error500") /\ UNCHANGED qrCache
  /\ UNCHANGED <<dataFile, LOCK, statsFile, statsState, statsLen, statsWriters>>
  /\ UNCHANGED <<op, queue_id, name, removed, position, outs, ghosts>>

delete_queue_write_stats(t) ==
  /\ op[t] = "delete_queue"
  /\ WriteStats(t)
  /\ data' = [data EXCEPT ![t] = DelQueue(data[t], queue_id[t])]
  /\ Goto(t, "save_data")
  /\ UNCHANGED <<dataFile, LOCK, qrCache>>
  /\ UNCHANGED <<op, queue_id, name, stats, removed, position, outs, result>>
  /\ UNCHANGED ghosts

delete_queue_write_data(t) ==
  /\ op[t] = "delete_queue"
  /\ WriteData(t)
  /\ Return(t, "ok")
  /\ deletedOk' = deletedOk \cup {queue_id[t]}
  /\ appended' = [appended EXCEPT ![queue_id[t]] = <<>>]
  /\ servedLog' = [servedLog EXCEPT ![queue_id[t]] = <<>>]
  /\ UNCHANGED <<statsFile, statsState, statsLen, statsWriters, qrCache>>
  /\ UNCHANGED <<op, queue_id, name, removed, position, outs>>
  /\ clearRun' = [clearRun EXCEPT ![queue_id[t]] = 0]
  /\ UNCHANGED <<started, servedCount, afterDelete, unserved>>

\* ----------------------------------------------------- clear_last_history
\* variant: pop(0) takes the oldest entry
clear_last_history_pops_oldest(t) ==
  /\ op[t] = "clear_last_history" /\ pc[t] = "load_stats"
  /\ IF ~StatsReadable THEN Return(t, "error500")
     ELSE IF statsFile.history = <<>> THEN Return(t, "no_history")
     ELSE /\ stats' = [stats EXCEPT ![t] =
                         [statsFile EXCEPT !.history = Tail(statsFile.history)]]
          /\ last_entry' = [last_entry EXCEPT ![t] = Head(statsFile.history)]
          /\ Goto(t, "save_stats")
          /\ UNCHANGED <<data, result>>
  /\ IF StatsReadable /\ statsFile.history # <<>> THEN TRUE
     ELSE UNCHANGED last_entry
  /\ UNCHANGED <<files, op, queue_id, name, removed, position, cleared_count, ghosts>>

clear_last_history_load(t) ==
  /\ op[t] = "clear_last_history" /\ pc[t] = "load_stats"
  /\ IF ~StatsReadable THEN Return(t, "error500")
     ELSE IF statsFile.history = <<>> THEN Return(t, "no_history")
     ELSE /\ stats' = [stats EXCEPT ![t] =
                         [statsFile EXCEPT !.history = Front(statsFile.history)]]
          /\ last_entry' = [last_entry EXCEPT ![t] = Last(statsFile.history)]
          /\ Goto(t, "save_stats")
          /\ UNCHANGED <<data, result>>
  /\ IF StatsReadable /\ statsFile.history # <<>> THEN TRUE
     ELSE UNCHANGED last_entry
  /\ UNCHANGED <<files, op, queue_id, name, removed, position, cleared_count, ghosts>>

clear_last_history_write(t) ==
  /\ op[t] = "clear_last_history"
  /\ WriteStats(t)
  /\ Return(t, "ok")
  /\ UNCHANGED <<dataFile, LOCK, qrCache>>
  /\ UNCHANGED <<op, queue_id, name, removed, position, outs, ghosts>>

\* ------------------------------------------------------ clear_all_history
\* variant: the entries are counted after the history has been emptied
clear_all_history_counts_after(t) ==
  /\ op[t] = "clear_all_history" /\ pc[t] = "load_stats"
  /\ IF ~StatsReadable THEN Return(t, "error500")
     ELSE /\ cleared_count' = [cleared_count EXCEPT ![t] = Len(<<>>)]
          /\ stats' = [stats EXCEPT ![t] = [statsFile EXCEPT !.history = <<>>]]
          /\ Goto(t, "save_stats")
          /\ UNCHANGED <<data, result>>
  /\ IF StatsReadable THEN TRUE ELSE UNCHANGED cleared_count
  /\ UNCHANGED <<files, op, queue_id, name, removed, position, last_entry, ghosts>>

clear_all_history_load(t) ==
  /\ op[t] = "clear_all_history" /\ pc[t] = "load_stats"
  /\ IF ~StatsReadable THEN Return(t, "error500")
     ELSE /\ cleared_count' = [cleared_count EXCEPT ![t] = Len(statsFile.history)]
          /\ stats' = [stats EXCEPT ![t] = [statsFile EXCEPT !.history = <<>>]]
          /\ Goto(t, "save_stats")
          /\ UNCHANGED <<data, result>>
  /\ IF StatsReadable THEN TRUE ELSE UNCHANGED cleared_count
  /\ UNCHANGED <<files, op, queue_id, name, removed, position, last_entry, ghosts>>

clear_all_history_write(t) ==
  /\ op[t] = "clear_all_history"
  /\ WriteStats(t)
  /\ Return(t, "ok")
  /\ UNCHANGED <<dataFile, LOCK, qrCache>>
  /\ UNCHANGED <<op, queue_id, name, removed, position, outs, ghosts>>

\* ------------------------------------------------------- specifications
\* the documents an earlier run of the service can have left behind
SeedStore == [k \in {"q1"} |-> <<"a", "b">>]
InitStores == {EmptyStore, SeedStore}

HistoryOf(n) == [i \in 1..n |-> ServedEntry("q1", "a")]

InitWith(store, served) ==
  /\ dataFile = store
  /\ LOCK = NoThread
  /\ statsFile = [served_today |-> served, history |-> HistoryOf(served)]
  /\ statsState = "ok"
  /\ statsLen = TextLen([served_today |-> served, history |-> HistoryOf(served)])
  /\ statsWriters = {}
  /\ qrCache = {}
  /\ pc = [t \in Threads |-> "idle"]
  /\ op = [t \in Threads |-> "none"]
  /\ queue_id = [t \in Threads |-> NoQueue]
  /\ name = [t \in Threads |-> NoName]
  /\ data = [t \in Threads |-> EmptyStore]
  /\ stats = [t \in Threads |-> DefaultStats]
  /\ removed = [t \in Threads |-> Null]
  /\ position = [t \in Threads |-> 0]
  /\ result = [t \in Threads |-> "none"]
  /\ started = 0
  /\ servedCount = served
  /\ deletedOk = {}
  /\ afterDelete = [t \in Threads |-> FALSE]
  /\ appended = [q \in QueueIds |-> IF q \in DOMAIN store THEN store[q] ELSE <<>>]
  /\ servedLog = [q \in QueueIds |-> <<>>]
  /\ cleared_count = [t \in Threads |-> 0]
  /\ last_entry = [t \in Threads |-> NoEntry]
  /\ clearRun = [q \in QueueIds |-> 0]
  /\ unserved = [q \in QueueIds |-> [n \in AllNames |->
                   IF q \in DOMAIN store
                     THEN Cardinality({i \in DOMAIN store[q] : store[q][i] = n})
                     ELSE 0]]

\* the service starts on no files or on the queues of an earlier run
Init == \E store \in InitStores : InitWith(store, 0)

\* the service starts on a stats.json that is one entry short of the limit
InitLongRun == InitWith(SeedStore, HistoryLimit - 1)

Step(t) ==
  \/ save_data_enter(t)
  \/ save_stats_open(t)
  \/ create_queue_load(t)
  \/ create_queue_write(t)
  \/ queue_qr_load(t)
  \/ queue_qr_exists(t)
  \/ queue_qr_save(t)
  \/ queue_qr_send(t)
  \/ queue_data_load(t)
  \/ queue_join_load(t)
  \/ queue_join_write(t)
  \/ queue_add_load(t)
  \/ queue_add_write(t)
  \/ queue_next_load_data(t)
  \/ queue_next_load_stats(t)
  \/ queue_next_write_data(t)
  \/ queue_next_write_stats(t)
  \/ queue_clear_load(t)
  \/ queue_clear_write(t)
  \/ delete_queue_load_data(t)
  \/ delete_queue_load_stats(t)
  \/ delete_queue_qr_exists(t)
  \/ delete_queue_unlink(t)
  \/ delete_queue_write_stats(t)
  \/ delete_queue_write_data(t)
  \/ clear_last_history_load(t)
  \/ clear_last_history_write(t)
  \/ clear_all_history_load(t)
  \/ clear_all_history_write(t)

Next == \E t \in Threads : Start(t) \/ Step(t)
DeepNext == \E t \in Threads : DeepStart(t) \/ Step(t)
SeqNext == \E t \in Threads : SeqStart(t) \/ Step(t)

\* requests served concurrently
Spec == Init /\ [][Next]_vars
\* requests served concurrently, with one request more (a request that
\* observes the outcome of a race between two others)
DeepSpec == Init /\ [][DeepNext]_vars
\* requests served one at a time
SeqSpec == Init /\ [][SeqNext]_vars
\* requests served concurrently, after a long run
LongRunSpec == InitLongRun /\ [][Next]_vars

\* ================================================================ claims
IsPrefix(s, r) == Len(s) <= Len(r) /\ SubSeq(r, 1, Len(s)) = s
Quiescent == \A t \in Threads : ~InFlight(t)

\* thread t takes the step that leaves label from under handler o
Leaves(t, o, from, to) == op[t] = o /\ pc[t] = from /\ pc'[t] = to

\* C1: requests served one at a time: the names queue_next answers for a queue
\* are, in order, the first names appended to it (since it was last created,
\* cleared or deleted), and the name it removes is the head of the stored
\* users sequence, of which the tail remains.
C1_FifoServiceOrder ==
  /\ [](\A q \in QueueIds : IsPrefix(servedLog[q], appended[q]))
  /\ [][\A t \in Threads :
          Leaves(t, "queue_next", "write_data", "save_stats") =>
            /\ removed[t] = Head(dataFile[queue_id[t]])
            /\ dataFile'[queue_id[t]] = Tail(dataFile[queue_id[t]])]_vars

\* three names were appended to q1 (two of an earlier run, one joined) and
\* all three were served
C1_Witness ==
  /\ Len(appended["q1"]) = 3
  /\ servedLog["q1"] = appended["q1"]
  /\ appended["q1"][1] # appended["q1"][3]

\* C2: a create_queue call answers an id that was no key of the store,
\* leaves every queue that existed in place with its users, and adds exactly
\* one key.
C2_CreateKeepsQueues ==
  [][\A t \in Threads :
       Leaves(t, "create_queue", "write_data", "done") =>
         /\ queue_id[t] \notin DOMAIN dataFile
         /\ DOMAIN dataFile' = DOMAIN dataFile \cup {queue_id[t]}
         /\ \A k \in DOMAIN dataFile : dataFile'[k] = dataFile[k]]_vars

\* C3: a join, add (with a name), next, clear, delete or data request on an
\* id that began after delete_queue answered ok for that id does not succeed:
\* it answers not_found (a request that dies on an unreadable file is not held
\* against the claim, nor is one on an id that create_queue has issued again).
C3_DeletionIsFinal ==
  \A t \in Threads :
    ( /\ pc[t] = "done"
      /\ afterDelete[t]
      /\ op[t] \in {"queue_join", "queue_add", "queue_next", "queue_clear",
                    "delete_queue", "queue_data"}
      /\ result[t] \notin {"missing_name", "error500"} )
    => result[t] = "not_found"

\* C4: the history of stats.json never has more than 50 entries.
C4_HistoryBounded == Len(statsFile.history) <= HistoryLimit

\* more events were recorded than the history holds: the oldest were dropped
C4_Witness ==
  /\ statsFile.served_today > HistoryLimit
  /\ Len(statsFile.history) = HistoryLimit
  /\ Last(statsFile.history) # statsFile.history[1]

\* C5: no step lowers the served_today of stats.json.
C5_ServedNeverDecreases ==
  [][statsFile'.served_today >= statsFile.served_today]_vars

\* C6: when no request is running (and stats.json is readable), served_today
\* is the number of queue_next calls that answered a name.
C6_ServedCountsServes ==
  (Quiescent /\ statsState = "ok") => statsFile.served_today = servedCount

\* C7: requests served one at a time: a queue_next on a queue whose users are
\* n followed by rest stores rest, answers n, raises served_today by one and
\* leaves {user: n, queue: id} as the last history entry.
C7_ServeNextEffect ==
  [][\A t \in Threads :
       LET q == queue_id[t] IN
       /\ Leaves(t, "queue_next", "write_data", "save_stats") =>
            /\ dataFile[q] # <<>>
            /\ removed[t] = dataFile[q][1]
            /\ dataFile' = [dataFile EXCEPT ![q] = Tail(dataFile[q])]
       /\ Leaves(t, "queue_next", "write_stats", "done") =>
            /\ result'[t] = "ok"
            /\ removed'[t] = removed[t]
            /\ removed[t] # Null
            /\ statsFile'.served_today = statsFile.served_today + 1
            /\ statsFile'.history # <<>>
            /\ Last(statsFile'.history) = [user |-> removed[t], queue |-> q]]_vars

\* Alice and Bob wait in q1; queue_next has answered Alice
C7_Witness ==
  \E t \in Threads :
    /\ pc[t] = "done" /\ op[t] = "queue_next" /\ queue_id[t] = "q1"
    /\ removed[t] = "a"
    /\ "q1" \in DOMAIN dataFile /\ dataFile["q1"] = <<"b">>
    /\ statsFile.served_today = 1
    /\ statsFile.history = <<[user |-> "a", queue |-> "q1"]>>

\* C8: a queue_next that finds its queue with no users answers null in that
\* step, and no step it has taken changes queues.json, stats.json, the lock
\* or the QR cache.
C8_EmptyServeNoWrite ==
  [][\A t \in Threads :
       /\ (op[t] = "queue_next" /\ pc[t] \in {"load_data", "load_stats"} /\ pc'[t] # pc[t])
            => UNCHANGED files
       /\ ( /\ op[t] = "queue_next" /\ pc[t] = "load_stats" /\ pc'[t] # pc[t]
            /\ StatsReadable
            /\ queue_id[t] \in DOMAIN data[t]
            /\ data[t][queue_id[t]] = <<>> )
            => (pc'[t] = "done" /\ result'[t] = "ok" /\ removed'[t] = Null)]_vars

\* a queue_next has answered null for a stored queue without users
C8_Witness ==
  \E t \in Threads :
    /\ pc[t] = "done" /\ op[t] = "queue_next" /\ result[t] = "ok"
    /\ removed[t] = Null
    /\ queue_id[t] \in DOMAIN dataFile
    /\ dataFile[queue_id[t]] = <<>>
    /\ statsFile = DefaultStats

\* C9: requests served one at a time: queue_join answers the new length of
\* the stored users sequence (one more than before), and the joined name is
\* stored at that position.
C9_JoinPosition ==
  [][\A t \in Threads :
       Leaves(t, "queue_join", "write_data", "done") =>
         LET q == queue_id[t] IN
         /\ q \in DOMAIN dataFile'
         /\ position'[t] = Len(dataFile'[q])
         /\ position'[t] = Len(dataFile[q]) + 1
         /\ dataFile'[q][position'[t]] = name[t]]_vars

\* a join without a name took place 3 of q1 under a generated name
C9_Witness ==
  \E t \in Threads :
    /\ pc[t] = "done" /\ op[t] = "queue_join" /\ result[t] = "ok"
    /\ position[t] = 3
    /\ name[t] \in GenNames
    /\ "q1" \in DOMAIN dataFile /\ dataFile["q1"] = <<"a", "b", name[t]>>

C11_ClearIdempotent ==
  [][/\ \A t \in Threads :
          /\ (Leaves(t, "queue_clear", "load_data", pc'[t])
               /\ queue_id[t] \in DOMAIN dataFile)
                => pc'[t] = "save_data"
          /\ Leaves(t, "queue_clear", "write_data", "done")
                => /\ result'[t] = "ok"
                   /\ dataFile' = SetUsers(dataFile, queue_id[t], <<>>)
                   /\ dataFile'[queue_id[t]] = <<>>
          /\ (op[t] = "queue_clear" /\ pc'[t] # pc[t] /\ InFlight(t))
                => /\ statsFile' = statsFile
                   /\ servedCount' = servedCount
     /\ \A q \in QueueIds :
          clearRun'[q] > 0 => q \in DOMAIN dataFile' /\ dataFile'[q] = <<>>
    ]_vars

\* queue_clear has answered ok twice in a row for a queue that held users
C11_Witness ==
  \E t \in Threads :
    /\ op[t] = "queue_clear" /\ pc[t] = "done" /\ result[t] = "ok"
    /\ clearRun[queue_id[t]] = 2
    /\ dataFile[queue_id[t]] = <<>>
    /\ statsFile = DefaultStats

\* the handlers that test the id against the queues.json they have just read
TestOnLoadData == {"queue_data", "queue_join", "queue_add", "queue_clear"}
\* the handlers that read stats.json as well before they test the id
TestAfterLoadStats == {"queue_next", "delete_queue"}

\* C12: a queue operation (queue_join, queue_add with a name, queue_next,
\* queue_clear, delete_queue, queue_data) whose id is not a key of the
\* queues.json it reads answers not_found once its reads have succeeded,
\* and none of its steps changes queues.json, stats.json or the QR cache.
C12_UnknownIdNotFound ==
  [][\A t \in Threads :
       /\ (/\ op[t] \in TestOnLoadData /\ pc[t] = "load_data" /\ pc'[t] # pc[t]
           /\ ~(op[t] = "queue_add" /\ name[t] = NoName)
           /\ queue_id[t] \notin DOMAIN dataFile)
            => /\ files' = files
               /\ pc'[t] = "done"
               /\ result'[t] = (IF DataReadable THEN "not_found" ELSE "error500")
       /\ (/\ op[t] \in TestAfterLoadStats /\ pc[t] = "load_data" /\ pc'[t] # pc[t]
           /\ queue_id[t] \notin DOMAIN dataFile)
            => /\ files' = files
               /\ IF DataReadable
                    THEN pc'[t] = "load_stats" /\ data'[t] = dataFile
                    ELSE pc'[t] = "done" /\ result'[t] = "error500"
       /\ (/\ op[t] \in TestAfterLoadStats /\ pc[t] = "load_stats" /\ pc'[t] # pc[t]
           /\ queue_id[t] \notin DOMAIN data[t])
            => /\ files' = files
               /\ pc'[t] = "done"
               /\ result'[t] = (IF StatsReadable THEN "not_found" ELSE "error500")
    ]_vars

\* a delete_queue and a queue_join on ids that are not stored have both
\* answered not_found
C12_Witness ==
  \E t, u \in Threads :
    /\ op[t] = "delete_queue" /\ pc[t] = "done" /\ result[t] = "not_found"
    /\ op[u] = "queue_join" /\ pc[u] = "done" /\ result[u] = "not_found"
    /\ queue_id[t] \notin DOMAIN dataFile
    /\ queue_id[u] \notin DOMAIN dataFile

\* C13: queue_add without a name answers missing_name and changes no file,
\* whether its id is stored or not and before queues.json is read at all;
\* queue_add with a name and an id that is not stored in the queues.json it
\* reads answers not_found.
C13_AddNameBeforeLookup ==
  [][\A t \in Threads :
       (op[t] = "queue_add" /\ pc[t] = "load_data" /\ pc'[t] # pc[t])
         => /\ name[t] = NoName
                 => /\ pc'[t] = "done" /\ result'[t] = "missing_name"
                    /\ files' = files
            /\ (name[t] # NoName /\ DataReadable
                  /\ queue_id[t] \notin DOMAIN dataFile)
                 => pc'[t] = "done" /\ result'[t] = "not_found"
    ]_vars

\* queue_add without a name has answered missing_name for a stored id and
\* for an id that is not stored
C13_Witness ==
  \E t, u \in Threads :
    /\ op[t] = "queue_add" /\ op[u] = "queue_add"
    /\ name[t] = NoName /\ name[u] = NoName
    /\ pc[t] = "done" /\ result[t] = "missing_name"
    /\ pc[u] = "done" /\ result[u] = "missing_name"
    /\ queue_id[t] \in DOMAIN dataFile
    /\ queue_id[u] \notin DOMAIN dataFile

\* C14: requests served one at a time: clear_all_history answers ok with
\* stats.json holding an empty history, the count it reports is the length
\* the history had before the call, and served_today and queues.json are as
\* they were before the call; no step of it changes queues.json.
C14_ClearAllHistory ==
  [][\A t \in Threads :
       /\ Leaves(t, "clear_all_history", "write_stats", "done")
            => /\ result'[t] = "ok"
               /\ statsState' = "ok"
               /\ statsFile'.history = <<>>
               /\ cleared_count'[t] = Len(statsFile.history)
               /\ statsFile'.served_today = statsFile.served_today
               /\ dataFile' = dataFile
       /\ (op[t] = "clear_all_history" /\ pc'[t] # pc[t] /\ InFlight(t))
            => /\ dataFile' = dataFile
               /\ statsFile'.served_today = statsFile.served_today
    ]_vars

\* clear_all_history has answered ok after two entries were served: it
\* reports 2, the history is empty and served_today is still 2
C14_Witness ==
  \E t \in Threads :
    /\ op[t] = "clear_all_history" /\ pc[t] = "done" /\ result[t] = "ok"
    /\ cleared_count[t] = 2
    /\ statsFile.history = <<>>
    /\ statsFile.served_today = 2
    /\ dataFile = [q1 |-> <<>>]

\* C15: requests served one at a time: clear_last_history answers ok with
\* the newest history entry as the removed one, stats.json then holds the
\* earlier entries in their order and the same served_today; on an empty
\* history it answers that there is nothing to clear and writes no file.
C15_ClearLastEntry ==
  [][\A t \in Threads :
       /\ Leaves(t, "clear_last_history", "write_stats", "done")
            => /\ result'[t] = "ok"
               /\ statsState' = "ok"
               /\ statsFile.history # <<>>
               /\ last_entry'[t] = statsFile.history[Len(statsFile.history)]
               /\ statsFile'.history =
                    SubSeq(statsFile.history, 1, Len(statsFile.history) - 1)
               /\ statsFile'.served_today = statsFile.served_today
               /\ dataFile' = dataFile
       /\ (Leaves(t, "clear_last_history", "load_stats", pc'[t])
            /\ statsFile.history = <<>>)
            => /\ pc'[t] = "done" /\ result'[t] = "no_history"
               /\ last_entry'[t] = NoEntry
               /\ files' = files
    ]_vars

\* a then b were served from q1 and clear_last_history has answered ok:
\* it removed the entry of b and the entry of a remains
C15_Witness ==
  \E t \in Threads :
    /\ op[t] = "clear_last_history" /\ pc[t] = "done" /\ result[t] = "ok"
    /\ last_entry[t] = ServedEntry("q1", "b")
    /\ statsFile.history = <<ServedEntry("q1", "a")>>
    /\ statsFile.served_today = 2

\* the threads inside the write of save_data (after the truncation, before
\* the text is complete)
dataWriters == {t \in Threads : pc[t] = "write_data"}

\* C16: for each of queues.json and stats.json, at most one save of that
\* document is in progress at any time.
C16_SavesSerialized ==
  /\ Cardinality(dataWriters) <= 1
  /\ Cardinality(statsWriters) <= 1

\* queue_next has written queues.json and not yet completed stats.json
NextBetweenWrites(t) ==
  op[t] = "queue_next" /\ pc[t] \in {"save_stats", "write_stats"}
\* delete_queue has written one of its two documents and not yet the other
DeleteBetweenWrites(t) ==
  op[t] = "delete_queue" /\ pc[t] \in {"save_data", "write_data"}

\* C17: requests served one at a time: a queue_next or delete_queue that
\* is between its two writes has already written queues.json (the served
\* name is popped, the deleted queue is gone) and only its stats.json entry
\* is missing.
C17_StoreBeforeStats ==
  \A t \in Threads :
    /\ NextBetweenWrites(t)
         => dataFile = data[t]
    /\ DeleteBetweenWrites(t)
         => /\ queue_id[t] \notin DOMAIN dataFile
            /\ (statsFile.history = <<>>
                 \/ Last(statsFile.history) # DeletedEntry(queue_id[t]))

\* thread t reads queues.json in this step
LoadsData(t) ==
  /\ pc[t] = "load_data" /\ pc'[t] # pc[t]
  /\ ~(op[t] = "queue_add" /\ name[t] = NoName)
\* thread t reads stats.json in this step
LoadsStats(t) == pc[t] = "load_stats" /\ pc'[t] # pc[t]

\* C18: no read of queues.json is made while a save_data is in progress,
\* and no read of stats.json while a save_stats is in progress.
C18_NoTornReads ==
  [][\A t \in Threads :
       /\ LoadsData(t) => dataWriters = {} /\ LOCK = NoThread
       /\ LoadsStats(t) => statsWriters = {}
    ]_vars

\* the number of entries of sequence s that are the name n
Count(n, s) == Cardinality({i \in DOMAIN s : s[i] = n})
\* the names appended to q (since it was last created, cleared or deleted)
\* that no queue_next has answered yet
Remaining(q) == SubSeq(appended[q], Len(servedLog[q]) + 1, Len(appended[q]))

\* C19: once no request is running, every name that a successful
\* queue_join or queue_add appended to a queue, and that no queue_next,
\* queue_clear or delete_queue on that queue has removed since, is in the
\* users that queues.json holds for the queue.
C19_NoLostJoins ==
  Quiescent =>
    \A q \in QueueIds :
      Remaining(q) # <<>> =>
        /\ q \in DOMAIN dataFile
        /\ \A n \in AllNames : Count(n, dataFile[q]) >= Count(n, Remaining(q))

\* C20: queue_next calls never answer a name of a queue more often than
\* entries of that name were appended to the queue: no entry is served twice.
C20_NoDoubleService ==
  \A q \in QueueIds : \A n \in AllNames : unserved[q][n] >= 0

====
